---- MODULE Spec2Model ----
(***************************************************************************)
(* A model of arbiter's S3 driver (src/arbiter/drivers/s3.cpp): the retry  *)
(* loop httpExec with its callers get, put and glob, the paginated bucket  *)
(* listing of glob, and the base64 encoder of the request signature; and   *)
(* of the Arbiter front end (src/arbiter/arbiter.cpp): the split of a path *)
(* into driver type and driver-level path, the dispatch of an operation to *)
(* the registered driver, and copy / copyFile.                             *)
(*                                                                         *)
(* A std::string is a sequence of one-character strings, positions are     *)
(* 0-based as in the source, and std::string::npos is npos.                *)
(***************************************************************************)
EXTENDS Integers, Sequences, FiniteSets, TLC

VARIABLES
    op,         \* the driver call in progress: "none", "get", "put", "glob"
    pc,         \* "idle", "exec" (inside httpExec's loop), "execDone", "done"
    path,       \* the call's path argument
    script,     \* how many 5xx responses the backend gives to this httpExec call
    fails,      \* httpExec: fails
    sleepTime,  \* httpExec: sleepTime, in milliseconds
    res,        \* httpExec: res, and the caller's copy of it
    calls,      \* invocations of f made by this httpExec call
    served,     \* the response the backend gave to the latest invocation
    sleeps,     \* the durations this httpExec call has slept, in order
    diags,      \* connection-quality diagnostics printed by this httpExec call
    bucket,     \* glob: bucket
    object,     \* glob: object
    prefix,     \* glob: prefix
    query,      \* glob: query, a map from parameter name to value
    more,       \* glob: more
    results,    \* glob: results
    reqs,       \* the requests sent, one per httpExec call
    pages,      \* the status-200 listing pages glob has received, in order
    outcome,    \* what the driver call returned or raised
    b64in,      \* encodeBase64: data
    b64out,     \* encodeBase64: the returned string, NoOutput before the call
    m_curlBatch,    \* S3Driver::m_curlBatch: "acquired" from curlPool or "released"
    rpath,      \* getType / stripType: the argument
    rtype,      \* getType(rpath), NoOutput before the call
    rstrip,     \* stripType(rpath), NoOutput before the call
    m_drivers,  \* Arbiter::m_drivers: the types that have a driver
    store,      \* what the backends hold: <<type, driver-level path>> -> bytes
    acall,      \* the Arbiter call in progress: its name and arguments
    apc,        \* "idle", "copying" (inside the loop of copy), "done"
    paths,      \* copy: paths, the resolved source paths
    it,         \* copy: the position in paths of the next path to copy
    commonPrefix,   \* copy: commonPrefix
    dstEndpoint,    \* copy: dstEndpoint
    trace,      \* the driver operations and mkdirp calls made by this call
    aout,       \* what the Arbiter call returned or raised
    backend     \* the bucket server of a listing: the keys it holds, its page size

vars == <<op, pc, path, script, fails, sleepTime, res, calls, served, sleeps, diags,
          bucket, object, prefix, query, more, results, reqs, pages, outcome,
          b64in, b64out, m_curlBatch, rpath, rtype, rstrip,
          m_drivers, store, acall, apc, paths, it, commonPrefix, dstEndpoint,
          trace, aout, backend>>

execVars == <<script, fails, sleepTime, res, calls, served, sleeps, diags>>
globVars == <<bucket, object, prefix, query, more, results, pages>>
b64Vars  == <<b64in, b64out>>
routeVars == <<rpath, rtype, rstrip>>
copyVars == <<paths, it, commonPrefix, dstEndpoint>>
arbVars  == <<m_drivers, store, acall, apc, copyVars, trace, aout>>
s3Vars   == <<op, pc, path, execVars, globVars, reqs, outcome>>

-----------------------------------------------------------------------------
(* Program constants *)

httpAttempts  == 200
baseSleepTime == 1
maxSleepTime  == 4096

(* Bounds of the model *)

\* The backend answers one get or put with at most MaxScript leading 5xx
\* responses; MaxScript >= httpAttempts makes the failure persistent.
MaxScript     == 200
\* The backend answers one listing request with at most MaxGlobFails 5xx.
MaxGlobFails  == 1
\* The backend serves at most MaxPages status-200 pages in one listing ...
MaxPages      == 2
\* ... holding at most MaxEntries entries in all.
MaxEntries    == 3
\* encodeBase64 is applied to at most MaxLen bytes.
MaxLen        == 4
\* getType and stripType are applied to paths of at most MaxPathLen characters,
\* and to those behind "file://".
MaxPathLen    == 6
\* the largest page size of a bucket server that lists in key order
MaxKeys       == 2

-----------------------------------------------------------------------------
(* std::string *)

npos == -1

Min(a, b) == IF a < b THEN a ELSE b

\* s.find(ch, pos): the first position >= pos holding ch, or npos.
find(s, ch, pos) ==
    LET hits == {i \in 0..(Len(s) - 1) : i >= pos /\ s[i + 1] = ch}
    IN  IF hits = {} THEN npos
        ELSE CHOOSE i \in hits : \A j \in hits : i <= j

\* s.substr(pos, count) for pos <= s.size(); count = npos takes the rest.
substr(s, pos, count) ==
    LET n == IF count = npos THEN Len(s) - pos ELSE Min(count, Len(s) - pos)
    IN  SubSeq(s, pos + 1, pos + n)

\* Anonymous-namespace helpers of s3.cpp, for a non-empty fullPath.
split(fullPath) ==
    LET p == IF fullPath[Len(fullPath)] = "/"
             THEN SubSeq(fullPath, 1, Len(fullPath) - 1)
             ELSE fullPath
    IN  find(p, "/", 0)

getBucket(fullPath) == substr(fullPath, 0, split(fullPath))

getObject(fullPath) ==
    LET pos == split(fullPath)
    IN  IF pos # npos THEN substr(fullPath, pos + 1, npos) ELSE <<>>

-----------------------------------------------------------------------------
(* HTTP responses and the backend *)

\* A response body is a byte string (get), a parsed listing (glob) or NoBody.
NoBody == <<>>

HttpResponse(code, body) == [code |-> code, body |-> body]

\* A default-constructed HttpResponse; httpExec overwrites it before reading it.
DefaultResponse == HttpResponse(0, NoBody)

ServerErrorCodes == {500, 503, 599}
FinalCodes       == {200, 204, 301, 404, 499, 600}

Objects == { <<"x">>, <<"y", "z">> }

EmptyQuery == <<>>

tryGet(bkt, obj, q) == [verb |-> "GET", bucket |-> bkt, object |-> obj, query |-> q]

tryPut(p) == [verb |-> "PUT", bucket |-> getBucket(p), object |-> getObject(p),
              query |-> EmptyQuery]

ObjectPaths == { <<"b", "/", "d", "/", "k">> }

-----------------------------------------------------------------------------
(* S3Driver::httpExec *)

\* Variants of the loop condition: one try short, fails++ for ++fails, and a
\* retry after any response other than 200.
RetryAgain_OneShort(r, nfails, tries) == (r.code \div 100 = 5) /\ nfails + 1 < tries
RetryAgain_PostIncrement(r, nfails, tries) == (r.code \div 100 = 5) /\ nfails - 1 < tries
RetryAgain_AnyFailure(r, nfails, tries) == r.code # 200 /\ nfails < tries

\* The loop condition, read after fails has been pre-incremented.
RetryAgain(r, nfails, tries) == (r.code \div 100 = 5) /\ nfails < tries

\* A variant without the cap.
NextSleep_NoCap(t) == t * 2

\* sleepTime *= 2, capped.
NextSleep(t) == IF t * 2 > maxSleepTime THEN maxSleepTime ELSE t * 2

\* Entry of httpExec: its locals, and the backend's script for this call.
HttpExecEnter(n) ==
    /\ script' = n
    /\ fails' = 0
    /\ res' = DefaultResponse
    /\ sleepTime' = baseSleepTime
    /\ calls' = 0
    /\ served' = DefaultResponse
    /\ sleeps' = <<>>
    /\ diags' = 0
    /\ pc' = "exec"

\* One iteration of the do-while loop: f() answers r; a non-200 answer is slept
\* on; the loop goes on only for a server error with tries left.
Attempt(r, tries) ==
    LET nfails == IF r.code \div 100 = 5 THEN fails + 1 ELSE fails
    IN  /\ res' = r
        /\ calls' = calls + 1
        /\ served' = r
        /\ sleeps' = IF r.code # 200 THEN Append(sleeps, sleepTime) ELSE sleeps
        /\ sleepTime' = IF r.code # 200 THEN NextSleep(sleepTime) ELSE sleepTime
        /\ diags' = IF r.code # 200 /\ fails = 5 THEN diags + 1 ELSE diags
        /\ fails' = nfails
        /\ pc' = IF RetryAgain(r, nfails, tries) THEN "exec" ELSE "execDone"

-----------------------------------------------------------------------------
(* The listing pages of S3Driver::glob *)

\* An optional value: <<>> when the XML node is absent, <<v>> when its value is v.
NoNode == <<>>
Some(v) == <<v>>

\* The keys the backend holds in its two buckets.
KeysIn(bkt) ==
    IF bkt = <<"b">> THEN { <<"a">>, <<"b">>, <<"c">>, <<"s", "/", "b">> }
    ELSE { <<"d", "/", "a">>, <<"d", "/", "s", "/", "b">>, <<"e">> }

StartsWith(s, p) == Len(p) <= Len(s) /\ SubSeq(s, 1, Len(p)) = p

\* The backend lists only keys under the requested prefix. An entry is the first
\* Contents element or one of its following siblings, given by the value of its
\* optional Key child.
EntryChoices(bkt, pfx) ==
    {Some(k) : k \in {x \in KeysIn(bkt) : StartsWith(x, pfx)}} \cup {NoNode}

EntrySeqs(bkt, pfx, n) == UNION {[1..k -> EntryChoices(bkt, pfx)] : k \in 0..n}

TruncChoices == { NoNode, Some(<<"t", "r", "u", "e">>), Some(<<"T", "r", "u", "e">>),
                  Some(<<"f", "a", "l", "s", "e">>) }

\* A parsed response body: xml says whether it parses, top whether it has a
\* ListBucketResult, trunc is its optional IsTruncated child.
Page(x, t, tr, es) == [xml |-> x, top |-> t, trunc |-> tr, entries |-> es]

MalformedPage == Page("malformed", FALSE, NoNode, <<>>)
NoTopPage     == Page("ok", FALSE, NoNode, <<>>)

PagesOf(bkt, pfx, n) ==
    {MalformedPage, NoTopPage} \cup
    {Page("ok", TRUE, tr, es) : tr \in TruncChoices, es \in EntrySeqs(bkt, pfx, n)}

RECURSIVE EntryCount(_)
EntryCount(ps) == IF ps = <<>> THEN 0
                  ELSE Len(Head(ps).entries) + EntryCount(Tail(ps))

upper == <<"A", "B", "C", "D", "E", "F", "G", "H", "I", "J", "K", "L", "M",
           "N", "O", "P", "Q", "R", "S", "T", "U", "V", "W", "X", "Y", "Z">>
lower == <<"a", "b", "c", "d", "e", "f", "g", "h", "i", "j", "k", "l", "m",
           "n", "o", "p", "q", "r", "s", "t", "u", "v", "w", "x", "y", "z">>

tolower(c) == IF \E i \in 1..26 : upper[i] = c
              THEN lower[CHOOSE i \in 1..26 : upper[i] = c]
              ELSE c

\* std::transform(t.begin(), t.end(), t.begin(), tolower)
transformLower(t) == [i \in 1..Len(t) |-> tolower(t[i])]

-----------------------------------------------------------------------------
(* A bucket server that lists in key order *)

\* The server holds finitely many keys and answers a listing request with the
\* first maxKeys keys under the prefix that sort after the request's marker, in
\* byte order, and with IsTruncated "true" iff keys remain after them.
ListingKeys ==
    { <<"d", "/", "a">>, <<"d", "/", "s", "/", "b">>, <<"d", "/", "z">>, <<"e">> }

Backends == {[keys |-> K, maxKeys |-> n] : K \in SUBSET ListingKeys, n \in 1..MaxKeys}

NoBackend == [keys |-> {}, maxKeys |-> 0]

\* The byte of a character of a key: "/" or a lower-case letter.
Ord(c) == IF c = "/" THEN 47 ELSE 96 + (CHOOSE i \in 1..26 : lower[i] = c)

\* a sorts strictly before b.
RECURSIVE Less(_, _)
Less(a, b) ==
    IF b = <<>> THEN FALSE
    ELSE IF a = <<>> THEN TRUE
    ELSE IF a[1] = b[1] THEN Less(Tail(a), Tail(b))
    ELSE Ord(a[1]) < Ord(b[1])

RECURSIVE Sorted(_)
Sorted(S) ==
    IF S = {} THEN <<>>
    ELSE LET least == CHOOSE k \in S : \A x \in S \ {k} : Less(k, x)
         IN  <<least>> \o Sorted(S \ {least})

\* The optional value of a parameter of a query.
Param(q, k) == IF k \in DOMAIN q THEN Some(q[k]) ELSE NoNode

\* The keys a request is still to be told of.
KeysAfter(b, q) ==
    LET pfx == IF Param(q, "prefix") = NoNode THEN <<>> ELSE q["prefix"]
        mk  == Param(q, "marker")
    IN  {k \in b.keys : /\ StartsWith(k, pfx)
                        /\ (mk = NoNode \/ Less(mk[1], k))}

ListBucket(b, q) ==
    LET rest == Sorted(KeysAfter(b, q))
        n    == Min(Len(rest), b.maxKeys)
    IN  Page("ok", TRUE,
             Some(IF n < Len(rest) THEN <<"t", "r", "u", "e">>
                  ELSE <<"f", "a", "l", "s", "e">>),
             [i \in 1..n |-> Some(rest[i])])

-----------------------------------------------------------------------------
(* S3Driver::glob *)

S3Prefix == <<"s", "3", ":", "/", "/">>

SetParam(q, k, v) == (k :> v) @@ q

\* more after the IsTruncated lookup: a page without the element leaves it alone.
Truncated(page, old) ==
    IF page.trunc # NoNode
    THEN transformLower(page.trunc[1]) = <<"t", "r", "u", "e">>
    ELSE old

\* A variant that takes every page to have a Contents element.
NoContents_Never(page) == FALSE

\* !conNode
NoContents(page) == page.entries = <<>>

\* A variant that searches the whole key, prefix included.
TopLevel_WholeKey(key, pfx) == find(key, "/", 0) = npos

\* The top-level test of a key.
TopLevel(key, pfx) == find(key, "/", Len(pfx)) = npos

\* A variant that puts the new path first.
PushResult_Front(rs, bkt, key) == <<S3Prefix \o bkt \o <<"/">> \o key>> \o rs

PushResult(rs, bkt, key) == Append(rs, S3Prefix \o bkt \o <<"/">> \o key)

\* A variant that sends the key relative to the prefix.
Marker_Relative(obj, pfx, key) == substr(key, Len(pfx), npos)

\* (object.size() ? object + "/" : "") + key.substr(prefix.size())
Marker(obj, pfx, key) ==
    (IF Len(obj) > 0 THEN obj \o <<"/">> ELSE <<>>) \o substr(key, Len(pfx), npos)

\* The for loop over the Contents element and its siblings, from entry i on;
\* st holds results, query and err, the exception thrown if any.
RECURSIVE Contents(_, _, _, _, _, _, _)
Contents(es, i, st, bkt, obj, pfx, m) ==
    IF i > Len(es) \/ st.err # "none" THEN st
    ELSE LET key == es[i][1]
             nx  == IF es[i] = NoNode THEN [st EXCEPT !.err = "badResponse"]
                    ELSE IF ~TopLevel(key, pfx) THEN st
                    ELSE IF ~m
                         THEN [st EXCEPT !.results = PushResult(@, bkt, key)]
                    ELSE IF Len(pfx) > Len(key)
                         THEN [st EXCEPT !.results = PushResult(@, bkt, key),
                                         !.err = "out_of_range"]
                    ELSE [st EXCEPT !.results = PushResult(@, bkt, key),
                                    !.query = SetParam(@, "marker",
                                                       Marker(obj, pfx, key))]
         IN  Contents(es, i + 1, nx, bkt, obj, pfx, m)

\* The body of the do-while loop after httpExec has returned r: the new results,
\* query and more, and err, the exception thrown if any.
GlobBody(r, st, bkt, obj, pfx, m) ==
    LET base == [results |-> st.results, query |-> st.query, more |-> m,
                 err |-> "none"]
    IN  IF r.code # 200 THEN [base EXCEPT !.err = "queryFailed"]
        ELSE IF r.body.xml # "ok" THEN [base EXCEPT !.err = "parse_error"]
        ELSE IF ~r.body.top THEN [base EXCEPT !.err = "badResponse"]
        ELSE LET m2 == Truncated(r.body, m)
             IN  IF NoContents(r.body)
                 THEN [base EXCEPT !.more = m2, !.err = "badResponse"]
                 ELSE LET c == Contents(r.body.entries, 1,
                                        [results |-> st.results,
                                         query |-> st.query, err |-> "none"],
                                        bkt, obj, pfx, m2)
                      IN  [results |-> c.results, query |-> c.query,
                           more |-> m2, err |-> c.err]

GlobPaths == { <<"b", "/", "*">>, <<"w", "/", "d", "/", "*">>, <<"b", "/", "d">> }

\* path.size() < 2 || path.substr(path.size() - 2) != "/*"
InvalidGlob(p) == Len(p) < 2 \/ substr(p, Len(p) - 2, npos) # <<"/", "*">>

-----------------------------------------------------------------------------
(* S3Driver::encodeBase64 *)

vals == <<"A", "B", "C", "D", "E", "F", "G", "H", "I", "J", "K", "L", "M",
          "N", "O", "P", "Q", "R", "S", "T", "U", "V", "W", "X", "Y", "Z",
          "a", "b", "c", "d", "e", "f", "g", "h", "i", "j", "k", "l", "m",
          "n", "o", "p", "q", "r", "s", "t", "u", "v", "w", "x", "y", "z",
          "0", "1", "2", "3", "4", "5", "6", "7", "8", "9", "+", "/">>

\* *reinterpret_cast<uint8_t*>(&c): the byte of a char, signed or unsigned.
ToUint8(c) == c % 256

\* (*pos) << 16 | *(pos + 1) << 8 | *(pos + 2), for pos an offset into input.
Chunk(input, pos) ==
    input[pos + 1] * 65536 + input[pos + 2] * 256 + input[pos + 3]

\* vals[(chunk >> shift) & mask]
Val(chunk, shift) == vals[((chunk \div (2 ^ shift)) % 64) + 1]

\* while (input.size() % 3) input.push_back(0)
RECURSIVE ZeroPad(_)
ZeroPad(input) == IF Len(input) % 3 # 0 THEN ZeroPad(Append(input, 0)) ELSE input

\* The loop over the full groups; st holds pos and output.
RECURSIVE FullGroups(_, _, _)
FullGroups(input, end, st) ==
    IF st.pos = end THEN st
    ELSE LET chunk == Chunk(input, st.pos)
         IN  FullGroups(input, end,
                 [pos |-> st.pos + 3,
                  output |-> st.output \o <<Val(chunk, 18), Val(chunk, 12),
                                           Val(chunk, 6), Val(chunk, 0)>>])

\* while (output.size() % 4) output.push_back('=')
RECURSIVE EqualsPad(_)
EqualsPad(output) ==
    IF Len(output) % 4 # 0 THEN EqualsPad(Append(output, "=")) ELSE output

encodeBase64(data) ==
    LET bytes     == [i \in 1..Len(data) |-> ToUint8(data[i])]
        fullSteps == Len(bytes) \div 3
        input     == ZeroPad(bytes)
        end       == fullSteps * 3
        loop      == FullGroups(input, end, [pos |-> 0, output |-> <<>>])
        pos       == loop.pos
        partial   ==
            IF end # Len(input)
            THEN LET num   == IF pos - end = 1 THEN 2 ELSE 3
                     chunk == Chunk(input, pos)
                 IN  <<Val(chunk, 18), Val(chunk, 12)>> \o
                     (IF num = 3 THEN <<Val(chunk, 6)>> ELSE <<>>)
            ELSE <<>>
    IN  EqualsPad(loop.output \o partial)

\* The chars encodeBase64 is applied to.
Chars == {-128, -1, 0, 1, 102, 127, 255}

Inputs == UNION {[1..n -> Chars] : n \in 0..MaxLen}

-----------------------------------------------------------------------------
(* Arbiter: the type and the driver-level path of a path *)

delimiter == <<":", "/", "/">>

\* s.find(str): the first position at which str occurs in s, or npos.
findStr(s, str) ==
    LET hits == {i \in 0..(Len(s) - Len(str)) :
                    SubSeq(s, i + 1, i + Len(str)) = str}
    IN  IF hits = {} THEN npos
        ELSE CHOOSE i \in hits : \A j \in hits : i <= j

FileType == <<"f", "i", "l", "e">>

getType(p) ==
    LET pos == findStr(p, delimiter)
    IN  IF pos # npos THEN substr(p, 0, pos) ELSE FileType

stripType_KeepsSlashes(raw) ==
    LET pos == findStr(raw, delimiter)
    IN  IF pos # npos THEN substr(raw, pos + 1, npos) ELSE raw

stripType(raw) ==
    LET pos == findStr(raw, delimiter)
    IN  IF pos # npos THEN substr(raw, pos + Len(delimiter), npos) ELSE raw

\* The paths getType and stripType are applied to: every string of at most
\* MaxPathLen of these characters, bare and behind "file://".
PathChars == {"a", ":", "/"}

Strings(n) == UNION {[1..k -> PathChars] : k \in 0..n}

RoutePaths ==
    Strings(MaxPathLen) \cup {FileType \o delimiter \o p : p \in Strings(MaxPathLen)}

-----------------------------------------------------------------------------
(* Arbiter: path helpers, endpoints and drivers.  arbiter.cpp calls them; their *)
(* code is in other files of the library, and they are modelled from the       *)
(* design document.                                                             *)

S3Type == <<"s", "3">>

\* Driver::isRemote: the filesystem driver is local, the S3 driver is remote.
isRemote(type) == type # FileType

\* A directory path ends with a separator.
isDirectory(p) == Len(p) > 0 /\ p[Len(p)] = "/"

RECURSIVE stripTrailing(_, _)
stripTrailing(p, ch) ==
    IF Len(p) > 0 /\ p[Len(p)] = ch
    THEN stripTrailing(SubSeq(p, 1, Len(p) - 1), ch)
    ELSE p

\* The path without its glob suffix and without the separators before it.
stripPostfixing(p) == stripTrailing(stripTrailing(p, "*"), "/")

\* The path, ending with a separator if it is not empty.
postfixSlash(p) ==
    IF Len(p) = 0 \/ p[Len(p)] = "/" THEN p ELSE p \o <<"/">>

\* s.rfind(ch): the last position holding ch, or npos.
rfind(s, ch) ==
    LET hits == {i \in 0..(Len(s) - 1) : s[i + 1] = ch}
    IN  IF hits = {} THEN npos
        ELSE CHOOSE i \in hits : \A j \in hits : i >= j

\* What follows the last separator of a path, and what precedes it.
getBasename(p) == substr(p, rfind(p, "/") + 1, npos)

getNonBasename(p) ==
    LET pos == rfind(p, "/")
    IN  IF pos = npos THEN <<>> ELSE substr(p, 0, pos)

\* An endpoint is a driver and a root that ends with a separator.
Endpoint(type, root) == [type |-> type, root |-> postfixSlash(root)]

NoEndpoint == [type |-> <<>>, root |-> <<>>]

isLocal(e) == ~isRemote(e.type)

\* The root with the driver's type in front when the driver is remote: the form
\* in which the driver's resolve gives the paths below the root.
prefixedRoot(e) ==
    (IF isRemote(e.type) THEN e.type \o delimiter ELSE <<>>) \o e.root

\* Root and subpath joined, a duplicate separator at the join collapsed.
fullPath(e, sub) ==
    IF isDirectory(e.root) /\ Len(sub) > 0 /\ sub[1] = "/"
    THEN e.root \o Tail(sub)
    ELSE e.root \o sub

\* The contents of the backends when an Arbiter call starts.
InitialStore ==
    (<<FileType, <<"a", "/", "x">>>> :> <<"1">>) @@
    (<<FileType, <<"a", "/", "d", "/", "y">>>> :> <<"2">>) @@
    (<<FileType, <<"a", "/", "z">>>> :> <<"5">>) @@
    (<<S3Type, <<"b", "/", "x">>>> :> <<"3">>) @@
    (<<S3Type, <<"b", "/", "d", "/", "y">>>> :> <<"4">>)

Has(st, type, p) == <<type, p>> \in DOMAIN st

\* Driver::get and Driver::tryGet: the bytes, or nothing when the object is absent
\* or the backend does not answer with success (ok is the backend's part).
Found(d) == <<d>>
Absent   == <<>>

driverTryGet(st, type, p, ok) ==
    IF ok /\ Has(st, type, p) THEN Found(st[<<type, p>>]) ELSE Absent

\* Driver::put: the store after a put that the backend accepts.
driverPut(st, type, p, data) == (<<type, p>> :> data) @@ st

\* The objects a driver's resolve finds for a glob path: those below the root,
\* all of them for "**" and the immediate children for "*", in any order, each
\* in the form that starts with the prefixed root.
Matches(st, type, glob) ==
    LET root == stripTrailing(glob, "*")
        deep == Len(glob) - Len(root) > 1
    IN  {k[2] : k \in {x \in DOMAIN st :
                    /\ x[1] = type
                    /\ StartsWith(x[2], root)
                    /\ deep \/ find(x[2], "/", Len(root)) = npos}}

Perms(S) ==
    {f \in [1..Cardinality(S) -> S] : \A i, j \in 1..Cardinality(S) :
                                         f[i] = f[j] => i = j}

driverResolve(st, type, glob) ==
    LET pre == IF isRemote(type) THEN type \o delimiter ELSE <<>>
    IN  {[i \in 1..Len(f) |-> pre \o f[i]] : f \in Perms(Matches(st, type, glob))}

\* One entry of the trace: a driver operation or a mkdirp, and whether it succeeded.
Op(o, type, p, arg, ok) ==
    [op |-> o, driver |-> type, path |-> p, arg |-> arg, ok |-> ok]

-----------------------------------------------------------------------------
(* The driver calls *)

NoOutcome   == [kind |-> "none", value |-> <<>>]
Returned(v) == [kind |-> "returned", value |-> v]
Raised(e)   == [kind |-> "raised", value |-> e]

NoOutput == <<"unset">>

\* The S3 driver between two calls.
DriverIdle ==
    /\ op = "none" /\ pc = "idle" /\ path = <<>>
    /\ script = 0 /\ fails = 0 /\ sleepTime = baseSleepTime
    /\ res = DefaultResponse /\ calls = 0 /\ served = DefaultResponse
    /\ sleeps = <<>> /\ diags = 0
    /\ bucket = <<>> /\ object = <<>> /\ prefix = <<>> /\ query = EmptyQuery
    /\ more = FALSE /\ results = <<>> /\ reqs = <<>> /\ pages = <<>>
    /\ outcome = NoOutcome

\* No bucket server that lists in key order is attached.
Unattached == backend = NoBackend

Base64Idle == b64in = <<>> /\ b64out = NoOutput

RouteIdle == rpath = <<>> /\ rtype = NoOutput /\ rstrip = NoOutput

\* The Arbiter between two calls, with a driver for each type of Registered.
NoCall == [name |-> "none", src |-> <<>>, dst |-> <<>>, data |-> <<>>]

Call(n, a, b, d) == [name |-> n, src |-> a, dst |-> b, data |-> d]

Registered == {FileType, S3Type}

ArbiterIdle ==
    /\ store = InitialStore /\ acall = NoCall /\ apc = "idle"
    /\ paths = <<>> /\ it = 0 /\ commonPrefix = <<>> /\ dstEndpoint = NoEndpoint
    /\ trace = <<>> /\ aout = NoOutcome

Init ==
    /\ op = "none" /\ pc = "idle" /\ path = <<>>
    /\ script = 0 /\ fails = 0 /\ sleepTime = baseSleepTime
    /\ res = DefaultResponse /\ calls = 0 /\ served = DefaultResponse
    /\ sleeps = <<>> /\ diags = 0
    /\ bucket = <<>> /\ object = <<>> /\ prefix = <<>> /\ query = EmptyQuery
    /\ more = FALSE /\ results = <<>> /\ reqs = <<>> /\ pages = <<>>
    /\ outcome = NoOutcome
    /\ b64in = <<>> /\ b64out = NoOutput
    /\ m_curlBatch = "acquired"
    /\ RouteIdle
    /\ m_drivers = Registered /\ ArbiterIdle
    /\ Unattached

NewCall(o, p) ==
    /\ pc = "idle"
    /\ m_curlBatch = "acquired"
    /\ op' = o /\ path' = p
    /\ outcome' = NoOutcome
    /\ pages' = <<>>
    /\ UNCHANGED <<b64Vars, m_curlBatch, backend, routeVars, arbVars>>

NoGlobFrame ==
    /\ bucket' = <<>> /\ object' = <<>> /\ prefix' = <<>> /\ query' = EmptyQuery
    /\ more' = FALSE /\ results' = <<>>

\* S3Driver::get up to its call of httpExec.
StartGet ==
    \E p \in ObjectPaths, n \in 0..MaxScript :
        /\ NewCall("get", p)
        /\ NoGlobFrame
        /\ reqs' = <<tryGet(getBucket(p), getObject(p), EmptyQuery)>>
        /\ HttpExecEnter(n)

\* S3Driver::put up to its call of httpExec.
StartPut ==
    \E p \in ObjectPaths, n \in 0..MaxScript :
        /\ NewCall("put", p)
        /\ NoGlobFrame
        /\ reqs' = <<tryPut(p)>>
        /\ HttpExecEnter(n)

\* S3Driver::glob up to its first call of httpExec.
StartGlob ==
    \E p \in GlobPaths, n \in 0..MaxGlobFails :
        /\ NewCall("glob", p)
        /\ more' = FALSE /\ results' = <<>>
        /\ IF InvalidGlob(p)
           THEN /\ pc' = "done"
                /\ outcome' = Raised("invalidGlob")
                /\ bucket' = <<>> /\ object' = <<>> /\ prefix' = <<>>
                /\ query' = EmptyQuery /\ reqs' = <<>>
                /\ UNCHANGED execVars
           ELSE LET resized == SubSeq(p, 1, Len(p) - 2)
                    obj == getObject(resized)
                    pfx == IF obj = <<>> THEN <<>> ELSE obj \o <<"/">>
                    q   == IF Len(pfx) > 0 THEN SetParam(EmptyQuery, "prefix", pfx)
                           ELSE EmptyQuery
                IN  /\ bucket' = getBucket(resized)
                    /\ object' = obj
                    /\ prefix' = pfx
                    /\ query' = q
                    /\ reqs' = <<tryGet(getBucket(resized), <<>>, q)>>
                    /\ HttpExecEnter(n)

\* The status codes the backend may answer the next invocation with.
Codes ==
    IF calls < script THEN ServerErrorCodes
    ELSE IF op = "glob" /\ Len(pages) >= MaxPages THEN FinalCodes \ {200}
    ELSE FinalCodes

\* One invocation of f inside httpExec and the rest of that loop iteration.
Exec ==
    /\ pc = "exec"
    /\ \E c \in Codes :
         IF c # 200 \/ op = "put"
         THEN Attempt(HttpResponse(c, NoBody), httpAttempts)
         ELSE IF op = "get"
         THEN \E d \in Objects : Attempt(HttpResponse(c, d), httpAttempts)
         ELSE \E pg \in PagesOf(bucket, prefix, MaxEntries - EntryCount(pages)) :
                  Attempt(HttpResponse(c, pg), httpAttempts)
    /\ UNCHANGED <<op, path, script, globVars, reqs, outcome, b64Vars, m_curlBatch, backend, routeVars, arbVars>>

\* S3Driver::get after httpExec has returned.
GetReturn ==
    /\ pc = "execDone" /\ op = "get"
    /\ outcome' = IF res.code # 200 THEN Raised("couldntFetch")
                  ELSE Returned(res.body)
    /\ pc' = "done"
    /\ UNCHANGED <<op, path, execVars, globVars, reqs, b64Vars, m_curlBatch, backend, routeVars, arbVars>>

\* S3Driver::put after httpExec has returned.
PutReturn ==
    /\ pc = "execDone" /\ op = "put"
    /\ outcome' = IF res.code # 200 THEN Raised("couldntWrite")
                  ELSE Returned(<<>>)
    /\ pc' = "done"
    /\ UNCHANGED <<op, path, execVars, globVars, reqs, b64Vars, m_curlBatch, backend, routeVars, arbVars>>

\* S3Driver::glob from the return of httpExec to the next call of it, or to the
\* end of glob; rq and pg are the requests and the pages remembered so far.
GlobPageFrom(rq, pg) ==
    /\ pc = "execDone" /\ op = "glob"
    /\ LET g == GlobBody(res, [results |-> results, query |-> query],
                         bucket, object, prefix, more)
       IN  /\ pages' = IF res.code = 200 THEN Append(pg, res.body) ELSE pg
           /\ results' = g.results
           /\ query' = g.query
           /\ more' = g.more
           /\ IF g.err # "none"
              THEN /\ outcome' = Raised(g.err)
                   /\ pc' = "done"
                   /\ UNCHANGED <<execVars, reqs>>
              ELSE IF g.more
              THEN /\ \E n \in 0..MaxGlobFails : HttpExecEnter(n)
                   /\ reqs' = Append(rq, tryGet(bucket, <<>>, g.query))
                   /\ UNCHANGED outcome
              ELSE /\ outcome' = Returned(g.results)
                   /\ pc' = "done"
                   /\ UNCHANGED <<execVars, reqs>>
    /\ UNCHANGED <<op, path, bucket, object, prefix, b64Vars, m_curlBatch, backend, routeVars, arbVars>>

GlobPage == GlobPageFrom(reqs, pages)

\* The caller has the outcome; no local of the finished call outlives it, and the
\* driver keeps nothing from one call to the next.
Finish ==
    /\ pc = "done"
    /\ op' = "none" /\ pc' = "idle" /\ path' = <<>>
    /\ script' = 0 /\ fails' = 0 /\ sleepTime' = baseSleepTime
    /\ res' = DefaultResponse /\ calls' = 0 /\ served' = DefaultResponse
    /\ sleeps' = <<>> /\ diags' = 0
    /\ NoGlobFrame
    /\ reqs' = <<>> /\ pages' = <<>>
    /\ outcome' = NoOutcome
    /\ UNCHANGED <<b64Vars, m_curlBatch, backend, routeVars, arbVars>>

\* S3Driver::~S3Driver: the batch goes back to curlPool; no call follows.
Destroy ==
    /\ pc = "idle"
    /\ m_curlBatch = "acquired"
    /\ m_curlBatch' = "released"
    /\ UNCHANGED <<s3Vars, b64Vars, routeVars, arbVars, backend>>

Next ==
    \/ StartGet
    \/ StartPut
    \/ StartGlob
    \/ Exec
    \/ GetReturn
    \/ PutReturn
    \/ GlobPage
    \/ Finish
    \/ Destroy

Spec == Init /\ [][Next]_vars

\* S3Driver::glob against a bucket server that lists in key order.  The server
\* may first fail with 5xx as often as the call's script says; then it answers
\* the request in flight.  Only the latest request and the latest page are
\* remembered.
InitListing ==
    /\ DriverIdle /\ Base64Idle /\ RouteIdle
    /\ m_curlBatch = "acquired"
    /\ m_drivers = Registered /\ ArbiterIdle
    /\ backend \in Backends

Serve ==
    /\ pc = "exec" /\ op = "glob"
    /\ IF calls < script
       THEN \E c \in ServerErrorCodes :
                Attempt(HttpResponse(c, NoBody), httpAttempts)
       ELSE Attempt(HttpResponse(200, ListBucket(backend, reqs[Len(reqs)].query)),
                    httpAttempts)
    /\ UNCHANGED <<op, path, script, globVars, reqs, outcome, b64Vars, m_curlBatch,
                   backend, routeVars, arbVars>>

ListPage == GlobPageFrom(<<>>, <<>>)

NextListing ==
    \/ StartGlob
    \/ Serve
    \/ ListPage
    \/ Finish

\* glob runs on: no step of it waits for anything but the server's answer, which
\* a server that answers every request gives.
SpecListing == InitListing /\ [][NextListing]_vars /\ WF_vars(NextListing)

\* encodeBase64 on its own: a pure function of its argument.
InitBase64 ==
    /\ op = "none" /\ pc = "idle" /\ path = <<>>
    /\ script = 0 /\ fails = 0 /\ sleepTime = baseSleepTime
    /\ res = DefaultResponse /\ calls = 0 /\ served = DefaultResponse
    /\ sleeps = <<>> /\ diags = 0
    /\ bucket = <<>> /\ object = <<>> /\ prefix = <<>> /\ query = EmptyQuery
    /\ more = FALSE /\ results = <<>> /\ reqs = <<>> /\ pages = <<>>
    /\ outcome = NoOutcome
    /\ b64in \in Inputs /\ b64out = NoOutput
    /\ m_curlBatch = "acquired"
    /\ RouteIdle
    /\ m_drivers = Registered /\ ArbiterIdle
    /\ Unattached

Encode ==
    /\ b64out = NoOutput
    /\ b64out' = encodeBase64(b64in)
    /\ UNCHANGED <<s3Vars, b64in, m_curlBatch, backend, routeVars, arbVars>>

NextBase64 == Encode

SpecBase64 == InitBase64 /\ [][NextBase64]_vars

\* getType and stripType on their own: pure functions of the path.
InitPath ==
    /\ DriverIdle /\ Base64Idle
    /\ m_curlBatch = "acquired"
    /\ rpath \in RoutePaths /\ rtype = NoOutput /\ rstrip = NoOutput
    /\ m_drivers = Registered /\ ArbiterIdle
    /\ Unattached

Route ==
    /\ rtype = NoOutput
    /\ rtype' = getType(rpath)
    /\ rstrip' = stripType(rpath)
    /\ UNCHANGED <<s3Vars, b64Vars, m_curlBatch, backend, rpath, arbVars>>

NextPath == Route

SpecPath == InitPath /\ [][NextPath]_vars

-----------------------------------------------------------------------------
(* The Arbiter calls *)

\* Arbiter::getDriver: the driver registered for the path's type, or no driver
\* (the call then throws ArbiterError("No driver for ...")).
getDriver_DefaultsToFile(reg, p) ==
    IF getType(p) \in reg THEN Found(getType(p)) ELSE Found(FileType)

getDriver(reg, p) ==
    IF getType(p) \in reg THEN Found(getType(p)) ELSE Absent

\* What an Arbiter call leaves behind: the backends' contents, the operations it
\* made, and what it returned or raised.
Result(st, tr, out) == [store |-> st, trace |-> tr, out |-> out]

NoDriverFor(st, tr) == Result(st, tr, Raised("noDriver"))

\* What a call returns, by the type the code gives it: a pointer that may be
\* null, a size, a pointer to a size, a boolean, an Endpoint, a list of paths.
\* A string, a vector of bytes and void are Returned as they are.
ReturnedPointer(m)     == [kind |-> "returned", pointer |-> m]
ReturnedSize(n)        == [kind |-> "returned", size |-> n]
ReturnedSizePointer(m) == [kind |-> "returned", sizePointer |-> m]
ReturnedBool(b)        == [kind |-> "returned", bool |-> b]
ReturnedEndpoint(e)    == [kind |-> "returned", endpoint |-> e]
ReturnedPaths(ps)      == [kind |-> "returned", paths |-> ps]

\* The calls that hand one operation to the driver of the path: get, getBinary,
\* tryGet, tryGetBinary, getSize, tryGetSize, exists, put, isRemote, isLocal.
dispatch(name, p, data, reg, st, ok) ==
    LET d == getDriver(reg, p)
    IN  IF d = Absent THEN NoDriverFor(st, <<>>)
        ELSE
        LET t    == d[1]
            dp   == stripType(p)
            got  == driverTryGet(st, t, dp, ok)
            read == <<Op(name, t, dp, <<>>, got # Absent)>>
        IN  CASE name \in {"get", "getBinary"} ->
                   Result(st, read, IF got = Absent THEN Raised("notFound")
                                    ELSE Returned(got[1]))
              [] name \in {"tryGet", "tryGetBinary"} ->
                   Result(st, read, ReturnedPointer(got))
              [] name = "getSize" ->
                   Result(st, read, IF got = Absent THEN Raised("notFound")
                                    ELSE ReturnedSize(Len(got[1])))
              [] name = "tryGetSize" ->
                   Result(st, read,
                          ReturnedSizePointer(IF got = Absent THEN Absent
                                              ELSE Found(Len(got[1]))))
              [] name = "exists" ->
                   Result(st, <<Op("tryGetSize", t, dp, <<>>, got # Absent)>>,
                          ReturnedBool(got # Absent))
              [] name = "put" ->
                   IF ok THEN Result(driverPut(st, t, dp, data),
                                     <<Op(name, t, dp, data, TRUE)>>,
                                     Returned(<<>>))
                   ELSE Result(st, <<Op(name, t, dp, data, FALSE)>>,
                               Raised("putFailed"))
              [] name = "isRemote" ->
                   Result(st, <<Op("isRemote", t, <<>>, <<>>, TRUE)>>,
                          ReturnedBool(isRemote(t)))
              [] name = "isLocal" ->
                   Result(st, <<Op("isRemote", t, <<>>, <<>>, TRUE)>>,
                          ReturnedBool(~isRemote(t)))

\* Arbiter::copy: the source with "**" appended when it is a directory, and the
\* test for a single file.
srcToResolve(src) == src \o (IF isDirectory(src) THEN <<"*", "*">> ELSE <<>>)

IsSingleFile(toResolve) == toResolve[Len(toResolve)] # "*"

\* Arbiter::copy: the test for a copy of a directory to itself.
SameRoot_Never(srcEndpoint, dstEp) == FALSE

SameRoot(srcEndpoint, dstEp) == prefixedRoot(srcEndpoint) = prefixedRoot(dstEp)

\* Arbiter::copy: the subpath of a resolved path.
Subpath_Basename(p, pre) == getBasename(p)

Subpath(p, pre) == substr(p, Len(pre), npos)

\* Arbiter::copyFile: the destination, with the basename of the source when the
\* destination is a directory.
DstPath_AsGiven(file, dst) == dst

DstPath(file, dst) ==
    IF isDirectory(dst) THEN dst \o getBasename(file) ELSE dst

\* Arbiter::copyFile: the test for a copy within one driver.
SameDomain_Never(fileType, dstType) == FALSE

SameDomain(fileType, dstType) == fileType = dstType

Mkdirp(dir) == Op("mkdirp", <<>>, dir, <<>>, TRUE)

\* Arbiter::copyFile. g and w say whether the backend lets the read and the
\* write succeed.
copyFile(file, dst, reg, st, g, w) ==
    IF dst = <<>> THEN Result(st, <<>>, Raised("emptyDestination"))
    ELSE
    LET dd == getDriver(reg, dst)
    IN  IF dd = Absent THEN NoDriverFor(st, <<>>)
        ELSE
        LET dstEp == Endpoint(dd[1], stripType(dst))
            to    == DstPath(file, dst)
            mk    == IF isLocal(dstEp) THEN <<Mkdirp(getNonBasename(to))>>
                     ELSE <<>>
            fd    == getDriver(reg, file)
        IN  IF fd = Absent THEN NoDriverFor(st, mk)
            ELSE
            LET from == stripType(file)
                got  == driverTryGet(st, fd[1], from, g)
            IN  IF SameDomain(fd[1], dstEp.type)
                THEN \* Driver::copy, by default a get and a put of the driver
                     LET cp == <<Op("copy", fd[1], from, stripType(to),
                                    got # Absent /\ w)>>
                     IN  IF got = Absent
                         THEN Result(st, mk \o cp, Raised("notFound"))
                         ELSE IF ~w
                         THEN Result(st, mk \o cp, Raised("putFailed"))
                         ELSE Result(driverPut(st, fd[1], stripType(to), got[1]),
                                     mk \o cp, Returned(<<>>))
                ELSE \* put(dst, getBinary(file))
                     LET rd == <<Op("getBinary", fd[1], from, <<>>, got # Absent)>>
                         pd == getDriver(reg, to)
                     IN  IF got = Absent
                         THEN Result(st, mk \o rd, Raised("notFound"))
                         ELSE IF pd = Absent
                         THEN NoDriverFor(st, mk \o rd)
                         ELSE
                         LET wr == <<Op("put", pd[1], stripType(to), got[1], w)>>
                         IN  IF ~w
                             THEN Result(st, mk \o rd \o wr, Raised("putFailed"))
                             ELSE Result(driverPut(st, pd[1], stripType(to), got[1]),
                                         mk \o rd \o wr, Returned(<<>>))

\* The arguments of the calls.
Url(type, rest) == type \o delimiter \o rest

ArbPaths ==
    { <<"a", "/", "x">>,
      Url(FileType, <<"a", "/", "x">>),
      Url(S3Type, <<"b", "/", "x">>),
      Url(S3Type, <<"b", "/", "q">>) }

CopySources ==
    { <<>>,
      <<"a", "/", "x">>,
      <<"a", "/">>,
      <<"a", "/", "*">>,
      Url(FileType, <<"a", "/">>),
      Url(S3Type, <<"b", "/">>),
      Url(S3Type, <<"b", "/", "x">>) }

CopyDestinations ==
    { <<>>,
      <<"a">>,
      <<"a", "/">>,
      <<"c", "/">>,
      <<"c", "/", "z">>,
      Url(FileType, <<"a">>),
      Url(S3Type, <<"b", "/">>),
      Url(S3Type, <<"c", "/">>) }

CopyFiles ==
    { <<"a", "/", "x">>,
      Url(S3Type, <<"b", "/", "x">>),
      Url(S3Type, <<"b", "/", "q">>) }

\* The registry after construction: the filesystem driver always, the S3 driver
\* when it could be created.
Registries == { Registered, {FileType} }

InitArbiter ==
    /\ DriverIdle /\ Base64Idle /\ RouteIdle
    /\ m_curlBatch = "acquired"
    /\ m_drivers \in Registries
    /\ ArbiterIdle
    /\ Unattached

\* A call that is over when its first step is.
Complete(c, r) ==
    /\ apc = "idle"
    /\ acall' = c
    /\ store' = r.store /\ trace' = r.trace /\ aout' = r.out
    /\ apc' = "done"
    /\ UNCHANGED <<m_drivers, copyVars, s3Vars, b64Vars, m_curlBatch, backend, routeVars>>

Dispatched(name, p, data, ok) ==
    Complete(Call(name, p, <<>>, data), dispatch(name, p, data, m_drivers, store, ok))

Get          == \E p \in ArbPaths, ok \in BOOLEAN : Dispatched("get", p, <<>>, ok)
GetBinary    == \E p \in ArbPaths, ok \in BOOLEAN : Dispatched("getBinary", p, <<>>, ok)
TryGet       == \E p \in ArbPaths, ok \in BOOLEAN : Dispatched("tryGet", p, <<>>, ok)
TryGetBinary == \E p \in ArbPaths, ok \in BOOLEAN : Dispatched("tryGetBinary", p, <<>>, ok)
GetSize      == \E p \in ArbPaths, ok \in BOOLEAN : Dispatched("getSize", p, <<>>, ok)
TryGetSize   == \E p \in ArbPaths, ok \in BOOLEAN : Dispatched("tryGetSize", p, <<>>, ok)
Exists       == \E p \in ArbPaths, ok \in BOOLEAN : Dispatched("exists", p, <<>>, ok)
IsRemote     == \E p \in ArbPaths : Dispatched("isRemote", p, <<>>, TRUE)
IsLocal      == \E p \in ArbPaths : Dispatched("isLocal", p, <<>>, TRUE)

Put ==
    \E p \in ArbPaths, data \in Objects, ok \in BOOLEAN :
        Dispatched("put", p, data, ok)

\* Arbiter::hasDriver
HasDriver ==
    \E p \in ArbPaths :
        Complete(Call("hasDriver", p, <<>>, <<>>),
                 Result(store, <<>>, ReturnedBool(getType(p) \in m_drivers)))

\* Arbiter::addDriver: a null driver is refused, any other one is registered.
AddDriver ==
    \E type \in Registered, null \in BOOLEAN :
        /\ apc = "idle"
        /\ acall' = Call("addDriver", type, <<>>, <<>>)
        /\ m_drivers' = IF null THEN m_drivers ELSE m_drivers \cup {type}
        /\ aout' = IF null THEN Raised("emptyDriver") ELSE Returned(<<>>)
        /\ apc' = "done"
        /\ UNCHANGED <<store, trace, copyVars, s3Vars, b64Vars, m_curlBatch, backend,
                       routeVars>>

\* Arbiter::getEndpoint
GetEndpoint ==
    \E p \in CopyDestinations :
        LET d == getDriver(m_drivers, p)
        IN  Complete(Call("getEndpoint", p, <<>>, <<>>),
                     IF d = Absent THEN NoDriverFor(store, <<>>)
                     ELSE Result(store, <<>>,
                                 ReturnedEndpoint(Endpoint(d[1], stripType(p)))))

\* Arbiter::resolve; g says whether the backend lets the listing succeed.
resolve(p, reg, st, g) ==
    LET d == getDriver(reg, p)
    IN  IF d = Absent THEN {NoDriverFor(st, <<>>)}
        ELSE IF ~g
        THEN {Result(st, <<Op("resolve", d[1], stripType(p), <<>>, FALSE)>>,
                     Raised("resolveFailed"))}
        ELSE {Result(st, <<Op("resolve", d[1], stripType(p), <<>>, TRUE)>>,
                     ReturnedPaths(r)) : r \in driverResolve(st, d[1], stripType(p))}

Resolve ==
    \E src \in CopySources, g \in BOOLEAN :
        /\ src # <<>>
        /\ ~IsSingleFile(srcToResolve(src))
        /\ \E r \in resolve(srcToResolve(src), m_drivers, store, g) :
               Complete(Call("resolve", srcToResolve(src), <<>>, <<>>), r)

\* Arbiter::copyFile
CopyFile ==
    \E file \in CopyFiles, dst \in CopyDestinations, g \in BOOLEAN, w \in BOOLEAN :
        Complete(Call("copyFile", file, dst, <<>>),
                 copyFile(file, dst, m_drivers, store, g, w))

\* Arbiter::copy up to the loop over the resolved paths: the whole call for a
\* single file, for a call that throws and for an empty resolution.
Copy ==
    \E src \in CopySources, dst \in CopyDestinations, g \in BOOLEAN, w \in BOOLEAN :
        LET c == Call("copy", src, dst, <<>>)
        IN
        IF src = <<>>
        THEN Complete(c, Result(store, <<>>, Raised("emptySource")))
        ELSE IF dst = <<>>
        THEN Complete(c, Result(store, <<>>, Raised("emptyDestination")))
        ELSE IF IsSingleFile(srcToResolve(src))
        THEN Complete(c, copyFile(src, dst, m_drivers, store, g, w))
        ELSE
        LET sd == getDriver(m_drivers, stripPostfixing(src))
            dd == getDriver(m_drivers, dst)
        IN  IF sd = Absent \/ dd = Absent
            THEN Complete(c, NoDriverFor(store, <<>>))
            ELSE
            LET srcEndpoint == Endpoint(sd[1], stripType(stripPostfixing(src)))
                dstEp       == Endpoint(dd[1], stripType(dst))
            IN  IF SameRoot(srcEndpoint, dstEp)
                THEN Complete(c, Result(store, <<>>, Raised("selfCopy")))
                ELSE
                \E r \in resolve(srcToResolve(src), m_drivers, store, g) :
                    IF r.out.kind = "raised" \/ r.out.paths = <<>>
                    THEN Complete(c, Result(r.store, r.trace,
                                            IF r.out.kind = "raised" THEN r.out
                                            ELSE Returned(<<>>)))
                    ELSE /\ apc = "idle"
                         /\ acall' = c
                         /\ apc' = "copying"
                         /\ paths' = r.out.paths /\ it' = 1
                         /\ commonPrefix' = prefixedRoot(srcEndpoint)
                         /\ dstEndpoint' = dstEp
                         /\ trace' = r.trace
                         /\ aout' = NoOutcome
                         /\ UNCHANGED <<m_drivers, store, s3Vars, b64Vars,
                                        m_curlBatch, backend, routeVars>>

\* One iteration of the loop of Arbiter::copy: mkdirp for a local destination,
\* getBinary of the path, put to the destination endpoint.
copyOne(p, reg, st, g, w) ==
    LET subpath == Subpath(p, commonPrefix)
        dest    == fullPath(dstEndpoint, subpath)
        mk      == IF isLocal(dstEndpoint) THEN <<Mkdirp(getNonBasename(dest))>>
                   ELSE <<>>
        sd      == getDriver(reg, p)
    IN  IF sd = Absent THEN NoDriverFor(st, mk)
        ELSE
        LET got == driverTryGet(st, sd[1], stripType(p), g)
            rd  == <<Op("getBinary", sd[1], stripType(p), <<>>, got # Absent)>>
        IN  IF got = Absent THEN Result(st, mk \o rd, Raised("notFound"))
            ELSE
            LET wr == <<Op("put", dstEndpoint.type, dest, got[1], w)>>
            IN  IF ~w THEN Result(st, mk \o rd \o wr, Raised("putFailed"))
                ELSE Result(driverPut(st, dstEndpoint.type, dest, got[1]),
                            mk \o rd \o wr, Returned(<<>>))

CopyStep_SkipFailed ==
    /\ apc = "copying"
    /\ \E g \in BOOLEAN, w \in BOOLEAN :
         LET r == copyOne(paths[it], m_drivers, store, g, w)
         IN  /\ store' = r.store
             /\ trace' = trace \o r.trace
             /\ IF it = Len(paths)
                THEN apc' = "done" /\ aout' = Returned(<<>>) /\ it' = it
                ELSE apc' = "copying" /\ aout' = aout /\ it' = it + 1
    /\ UNCHANGED <<m_drivers, acall, paths, commonPrefix, dstEndpoint,
                   s3Vars, b64Vars, m_curlBatch, backend, routeVars>>

CopyStep ==
    /\ apc = "copying"
    /\ \E g \in BOOLEAN, w \in BOOLEAN :
         LET r == copyOne(paths[it], m_drivers, store, g, w)
         IN  /\ store' = r.store
             /\ trace' = trace \o r.trace
             /\ IF r.out.kind = "raised"
                THEN apc' = "done" /\ aout' = r.out /\ it' = it
                ELSE IF it = Len(paths)
                THEN apc' = "done" /\ aout' = Returned(<<>>) /\ it' = it
                ELSE apc' = "copying" /\ aout' = aout /\ it' = it + 1
    /\ UNCHANGED <<m_drivers, acall, paths, commonPrefix, dstEndpoint,
                   s3Vars, b64Vars, m_curlBatch, backend, routeVars>>

\* The caller has the outcome. The next call finds the backends as InitialStore
\* describes them.
ArbiterFinish ==
    /\ apc = "done"
    /\ store' = InitialStore /\ acall' = NoCall /\ apc' = "idle"
    /\ paths' = <<>> /\ it' = 0 /\ commonPrefix' = <<>> /\ dstEndpoint' = NoEndpoint
    /\ trace' = <<>> /\ aout' = NoOutcome
    /\ UNCHANGED <<m_drivers, s3Vars, b64Vars, m_curlBatch, backend, routeVars>>

NextArbiter ==
    \/ Get
    \/ GetBinary
    \/ TryGet
    \/ TryGetBinary
    \/ GetSize
    \/ TryGetSize
    \/ Exists
    \/ Put
    \/ IsRemote
    \/ IsLocal
    \/ HasDriver
    \/ AddDriver
    \/ GetEndpoint
    \/ Resolve
    \/ CopyFile
    \/ Copy
    \/ CopyStep
    \/ ArbiterFinish

SpecArbiter == InitArbiter /\ [][NextArbiter]_vars

-----------------------------------------------------------------------------
(* The retry loop *)

IsServerError(code) == code \in 500..599

\* C1: against a backend that answers 5xx to the first N invocations of one
\* httpExec call (N < 200) and 200 to the next, httpExec does not return before
\* invocation N+1, and it returns that 200 response after exactly N+1 invocations.
C1_SuccessAfterNFailures ==
    (pc = "execDone" /\ script < httpAttempts /\ (calls <= script \/ served.code = 200))
        => (calls = script + 1 /\ res.code = 200 /\ res = served)

C1_Witness ==
    pc = "execDone" /\ script = 199 /\ calls = 200 /\ res.code = 200

\* C2: against a backend that answers 5xx to every invocation, httpExec makes
\* exactly 200 invocations, never more in any call, and returns the last 5xx
\* response; get and put then raise, as they do for every status other than 200.
C2_GivesUpAfter200 ==
    /\ calls <= httpAttempts
    /\ (pc = "execDone" /\ script >= httpAttempts)
           => (calls = httpAttempts /\ IsServerError(res.code) /\ res = served)
    /\ (pc = "done" /\ op \in {"get", "put"} /\ res.code # 200)
           => outcome.kind = "raised"

C2_Witness ==
    /\ pc = "done" /\ op = "put" /\ script >= httpAttempts
    /\ calls = 200 /\ res.code = 503 /\ outcome = Raised("couldntWrite")

\* C3: an invocation after the first is made only when the previous response had
\* a status in 500..599; after any other status httpExec invokes nothing more and
\* returns exactly that response.
C3_RetryOnlyServerErrors ==
    /\ (pc = "exec" /\ calls > 0) => IsServerError(served.code)
    /\ (pc = "execDone" /\ ~IsServerError(served.code))
           => (res = served /\ calls = Min(script, httpAttempts) + 1)

C3_Witness ==
    pc = "execDone" /\ served.code = 404 /\ calls = 3 /\ script = 2 /\ res.code = 404

\* The k-th backoff sleep of a call: min(2^(k-1), 4096) ms.
Backoff(k) == IF k >= 13 THEN maxSleepTime ELSE 2 ^ (k - 1)

\* C4: in every httpExec call, also each one glob makes, the k-th sleep lasts
\* min(2^(k-1), 4096) ms, so the sleeps never decrease and never exceed 4096; a
\* call starts with no failure counted and a first sleep of 1 ms.
C4_Backoff ==
    /\ \A k \in 1..Len(sleeps) : sleeps[k] = Backoff(k)
    /\ \A k \in 2..Len(sleeps) : sleeps[k - 1] <= sleeps[k] /\ sleeps[k] <= 4096
    /\ pc \in {"exec", "execDone"} => sleepTime = Backoff(Len(sleeps) + 1)
    /\ (pc = "exec" /\ calls = 0) => (fails = 0 /\ sleeps = <<>> /\ sleepTime = 1)
    /\ pc = "exec" => fails = calls

C4_Witness ==
    /\ pc = "execDone" /\ Len(sleeps) = 15
    /\ sleeps[12] = 2048 /\ sleeps[13] = 4096 /\ sleeps[15] = 4096

\* C17: every backoff sleep of httpExec lies between two attempts: when a call
\* of httpExec returns it has slept once less than it has invoked f, so it has
\* not slept after the final invocation, be it answered 404 or the 200th 5xx.
C17_SleepsBetweenAttempts ==
    pc = "execDone" => Len(sleeps) = calls - 1

\* C18: within one call of httpExec the connection-quality diagnostic is
\* printed once, on the 5th consecutive 5xx response: it has been printed
\* exactly when 5 or more responses of the call have failed.
C18_DiagnosticOnFifthFailure ==
    pc \in {"exec", "execDone"} => diags = (IF fails >= 5 THEN 1 ELSE 0)

\* The diagnostic is printed at most once, on the first response other than 200
\* that follows five 5xx responses of the call.
DiagnosticOnSixthFailure ==
    pc \in {"exec", "execDone"} =>
        diags = (IF fails > 5 \/ (fails = 5 /\ served.code # 200 /\ calls = 6)
                 THEN 1 ELSE 0)

\* C16: the driver holds a batch of the connection pool only around a request:
\* once a get, put or glob has returned, the driver holds none.
C16_NoSlotHeldAfterReturn ==
    pc = "done" => m_curlBatch # "acquired"

\* The driver holds its batch from its construction to its destruction: every
\* call starts and ends with the batch acquired.
BatchHeldForLife ==
    /\ pc # "idle" => m_curlBatch = "acquired"
    /\ m_curlBatch = "released" => pc = "idle"

-----------------------------------------------------------------------------
(* The bucket listing *)

\* A key is an immediate child: no '/' at or after position length(prefix).
Qualifies(key, pfx) == \A j \in 1..Len(key) : j > Len(pfx) => key[j] # "/"

\* The keys of a page whose entries all have one, and the qualifying ones.
KeysOf(page) == [i \in 1..Len(page.entries) |-> page.entries[i][1]]

QualifyingKeys(page, pfx) == SelectSeq(KeysOf(page), LAMBDA k : Qualifies(k, pfx))

RECURSIVE Aggregate(_, _)
Aggregate(ps, pfx) ==
    IF ps = <<>> THEN <<>>
    ELSE QualifyingKeys(Head(ps), pfx) \o Aggregate(Tail(ps), pfx)

PathOf(bkt, key) == <<"s", "3", ":", "/", "/">> \o bkt \o <<"/">> \o key

PathsOf(bkt, keys) == [i \in 1..Len(keys) |-> PathOf(bkt, keys[i])]

SaysTruncated(page) ==
    page.trunc \in { << <<"t", "r", "u", "e">> >>, << <<"T", "r", "u", "e">> >> }

GlobReturned == op = "glob" /\ pc = "done" /\ outcome.kind = "returned"

\* C5: the result of glob is the concatenation, page by page in request order,
\* of each page's qualifying keys in page order, each as "s3://" + bucket + "/" +
\* key; nothing is reordered, dropped or duplicated.
C5_ResultIsConcatenation ==
    /\ GlobReturned => outcome.value = PathsOf(bucket, Aggregate(pages, prefix))
    /\ (op = "glob" /\ pc = "exec") => results = PathsOf(bucket, Aggregate(pages, prefix))

C5_Witness ==
    /\ GlobReturned
    /\ pages = << Page("ok", TRUE, Some(<<"t", "r", "u", "e">>),
                       <<Some(<<"a">>), Some(<<"b">>)>>),
                  Page("ok", TRUE, Some(<<"f", "a", "l", "s", "e">>),
                       <<Some(<<"c">>)>>) >>
    /\ outcome.value = << <<"s", "3", ":", "/", "/", "b", "/", "a">>,
                         <<"s", "3", ":", "/", "/", "b", "/", "b">>,
                         <<"s", "3", ":", "/", "/", "b", "/", "c">> >>

HasMarker(req) == "marker" \in DOMAIN req.query

SamePrefix(r1, r2) ==
    /\ ("prefix" \in DOMAIN r1.query) = ("prefix" \in DOMAIN r2.query)
    /\ "prefix" \in DOMAIN r1.query => r1.query["prefix"] = r2.query["prefix"]

FirstRequestAndPrefix ==
    /\ reqs # <<>> => ~HasMarker(reqs[1])
    /\ \A i \in 1..Len(reqs) : SamePrefix(reqs[1], reqs[i])

\* C6 as stated: the first request has no marker, every request has the same
\* prefix, and after every page that says IsTruncated = true the next request's
\* marker is the last qualifying key of that page.
C6_MarkerIsLastQualifyingKey ==
    op = "glob" =>
        /\ FirstRequestAndPrefix
        /\ \A i \in 1..Len(pages) :
               (SaysTruncated(pages[i]) /\ i < Len(reqs)) =>
                   LET q == QualifyingKeys(pages[i], prefix)
                   IN  /\ q # <<>>
                       /\ HasMarker(reqs[i + 1])
                       /\ reqs[i + 1].query["marker"] = q[Len(q)]

\* What the code does instead: the marker is the last qualifying key when the
\* truncated page has one (the keys being under the prefix), and when it has none
\* the next request repeats the previous one, marker or no marker.
MarkerOnlyFromQualifyingKey ==
    op = "glob" =>
        /\ FirstRequestAndPrefix
        /\ \A i \in 1..Len(pages) :
               (SaysTruncated(pages[i]) /\ i < Len(reqs)) =>
                   LET q == QualifyingKeys(pages[i], prefix)
                   IN  IF q # <<>>
                       THEN /\ HasMarker(reqs[i + 1])
                            /\ reqs[i + 1].query["marker"] = q[Len(q)]
                       ELSE reqs[i + 1] = reqs[i]

\* C7: a key of a listed page is in the result if and only if it has no '/' at or
\* after position length(prefix).
C7_ImmediateChildrenOnly ==
    GlobReturned =>
        \A i \in 1..Len(pages) : \A j \in 1..Len(pages[i].entries) :
            LET key == pages[i].entries[j][1]
            IN  (\E n \in 1..Len(outcome.value) : outcome.value[n] = PathOf(bucket, key))
                    <=> Qualifies(key, prefix)

C7_Witness ==
    /\ GlobReturned
    /\ prefix = <<"d", "/">>
    /\ Len(pages) = 1
    /\ pages[1].entries = <<Some(<<"d", "/", "a">>), Some(<<"d", "/", "s", "/", "b">>)>>
    /\ outcome.value = << <<"s", "3", ":", "/", "/", "w", "/", "d", "/", "a">> >>

Malformed(page) ==
    /\ page.xml = "ok"
    /\ \/ ~page.top
       \/ page.entries = <<>>
       \/ \E j \in 1..Len(page.entries) : page.entries[j] = NoNode

\* C8: a status-200 page without ListBucketResult, without Contents, or with an
\* entry without Key makes glob raise the malformed-response error, whatever the
\* earlier pages yielded, and a page whose final status is not 200 makes glob
\* raise too: no result is returned.
C8_MalformedPageRaises ==
    op = "glob" =>
        /\ \A i \in 1..Len(pages) :
               Malformed(pages[i]) =>
                   (i = Len(pages) /\ pc = "done" /\ outcome = Raised("badResponse"))
        /\ (pc = "done" /\ calls > 0 /\ res.code # 200)
               => outcome = Raised("queryFailed")

C8_Witness ==
    /\ op = "glob" /\ pc = "done"
    /\ Len(pages) = 2
    /\ pages[1].entries = <<Some(<<"a">>)>>
    /\ pages[2] = Page("ok", TRUE, Some(<<"f", "a", "l", "s", "e">>), <<>>)
    /\ results = << <<"s", "3", ":", "/", "/", "b", "/", "a">> >>
    /\ outcome = Raised("badResponse")

-----------------------------------------------------------------------------
(* Base64 *)

\* The bytes of the argument.
Bytes(data) == [i \in 1..Len(data) |-> data[i] % 256]

IsVal(c) == \E i \in 1..64 : vals[i] = c

Sextet(c) == (CHOOSE i \in 1..64 : vals[i] = c) - 1

\* The number of trailing '=' of a string.
RECURSIVE TrailingPads(_)
TrailingPads(str) ==
    IF str # <<>> /\ str[Len(str)] = "="
    THEN 1 + TrailingPads(SubSeq(str, 1, Len(str) - 1))
    ELSE 0

\* A standard base64 decoder (RFC 4648) on a padded string: each group of four
\* characters gives three bytes, a last group with one '=' two, with two '=' one.
RECURSIVE Decode(_)
Decode(str) ==
    IF str = <<>> THEN <<>>
    ELSE LET pads == IF Len(str) = 4 THEN TrailingPads(str) ELSE 0
             six(i) == IF str[i] = "=" THEN 0 ELSE Sextet(str[i])
             bits == six(1) * 262144 + six(2) * 4096 + six(3) * 64 + six(4)
             three == <<bits \div 65536, (bits \div 256) % 256, bits % 256>>
         IN  SubSeq(three, 1, 3 - pads) \o Decode(SubSeq(str, 5, Len(str)))

Encoded == b64out # NoOutput

\* C9: decoding encodeBase64(b) with a standard decoder gives back b, for b of
\* every length modulo 3.
C9_RoundTrip == Encoded => Decode(b64out) = Bytes(b64in)

\* C10: n bytes encode to 4 * ceil(n / 3) characters, of the alphabet but for the
\* trailing '=', of which there are 0, 2 and 1 for n mod 3 = 0, 1 and 2.
C10_LengthAndPadding ==
    Encoded =>
        LET n == Len(b64in)
            pads == TrailingPads(b64out)
        IN  /\ Len(b64out) = 4 * ((n + 2) \div 3)
            /\ pads = (IF n % 3 = 0 THEN 0 ELSE IF n % 3 = 1 THEN 2 ELSE 1)
            /\ \A i \in 1..(Len(b64out) - pads) : IsVal(b64out[i])

\* What the code does instead: C9 and C10 hold of the lengths that are not 1
\* modulo 3; for those that are, the last group is three characters and one '=',
\* which decodes to the input and one more byte, 0.
Base64ButForOneByteLeft ==
    Encoded =>
        IF Len(b64in) % 3 # 1
        THEN C9_RoundTrip /\ C10_LengthAndPadding
        ELSE /\ Decode(b64out) = Bytes(b64in) \o <<0>>
             /\ TrailingPads(b64out) = 1
             /\ Len(b64out) = 4 * ((Len(b64in) + 2) \div 3)

-----------------------------------------------------------------------------
(* The type and the driver-level path of a path *)

Routed == rtype # NoOutput

\* "://" occurs in s.
HasDelimiter(s) ==
    \E i \in 1..(Len(s) - 2) : s[i] = ":" /\ s[i + 1] = "/" /\ s[i + 2] = "/"

\* s \o "://" \o rest is p, cut after the first n characters.
SplitsAt(p, n) ==
    /\ n + 3 <= Len(p)
    /\ p[n + 1] = ":" /\ p[n + 2] = "/" /\ p[n + 3] = "/"
    /\ ~HasDelimiter(SubSeq(p, 1, n))

\* C11: getType and stripType split a path at its first "://". For every s
\* without "://" and every rest, which may contain "://", the type of
\* s://rest is s and its driver-level path is rest; a path p without "://" has
\* type "file" and driver-level path p, the same type and driver-level path as
\* file://p, so an operation on p reaches the same driver with the same path.
C11_SplitAtFirstDelimiter ==
    Routed =>
        /\ \A n \in 0..Len(rpath) :
               SplitsAt(rpath, n) =>
                   /\ rtype = SubSeq(rpath, 1, n)
                   /\ rstrip = SubSeq(rpath, n + 4, Len(rpath))
        /\ ~HasDelimiter(rpath) => rtype = FileType /\ rstrip = rpath
        /\ \A p \in Strings(MaxPathLen) :
               (~HasDelimiter(p) /\ rpath = FileType \o delimiter \o p) =>
                   rtype = FileType /\ rstrip = p

\* file://:// has been split: the rest holds a "://" of its own.
C11_Witness ==
    /\ Routed
    /\ rpath = FileType \o delimiter \o delimiter
    /\ rtype = FileType /\ rstrip = delimiter

-----------------------------------------------------------------------------
(* Arbiter::copy and Arbiter::copyFile *)

CopyCalled == apc # "idle" /\ acall.name = "copy"

Raises(e) == apc = "done" /\ aout.kind = "raised" /\ aout.value = e

\* No driver operation and no mkdirp has been made, and every backend holds
\* what it held when the call started.
NothingDone == trace = <<>> /\ store = InitialStore

\* A directory or a glob: the path ends with a separator or with '*'.
IsDirectoryOrGlob(p) == Len(p) > 0 /\ p[Len(p)] \in {"/", "*"}

\* The driver type and the normalized root of a source and of a destination:
\* the driver-level path, for a source without its glob suffix, ending with one
\* separator.
SourceRoot(src) == <<getType(src), postfixSlash(stripPostfixing(stripType(src)))>>

DestinationRoot(dst) == <<getType(dst), postfixSlash(stripType(dst))>>

\* C12: copy(src, dst) with src a directory or a glob whose normalized root is
\* the normalized root of dst (both of a registered driver) raises "Cannot copy
\* directory to itself" before the source is resolved and before any get, put
\* or mkdirp, so that every backend holds what it held before; and copy with an
\* empty src or an empty dst raises before any driver operation.
C12_SelfCopyRaisesFirst ==
    CopyCalled =>
        /\ acall.src = <<>> => Raises("emptySource") /\ NothingDone
        /\ (acall.src # <<>> /\ acall.dst = <<>>)
               => Raises("emptyDestination") /\ NothingDone
        /\ (/\ IsDirectoryOrGlob(acall.src) /\ acall.dst # <<>>
            /\ getType(acall.src) \in m_drivers
            /\ SourceRoot(acall.src) = DestinationRoot(acall.dst))
               => Raises("selfCopy") /\ NothingDone

\* copy("a/*", "file://a") has raised: both roots are a/ of the filesystem.
C12_Witness ==
    /\ CopyCalled /\ Raises("selfCopy")
    /\ acall.src = <<"a", "/", "*">>
    /\ acall.dst = Url(FileType, <<"a">>)

\* A finished copyFile(file, dst), or a finished copy(src, dst) of a single
\* file: src is not empty and ends neither with a separator nor with '*'.
SingleFileCopy ==
    /\ apc = "done"
    /\ \/ acall.name = "copyFile"
       \/ acall.name = "copy" /\ acall.src # <<>> /\ ~IsDirectoryOrGlob(acall.src)

\* The last component of a path: what follows its last separator.
BaseName(p) ==
    LET k == CHOOSE n \in 0..Len(p) :
                 /\ n = 0 \/ p[n] = "/"
                 /\ \A j \in (n + 1)..Len(p) : p[j] # "/"
    IN  SubSeq(p, k + 1, Len(p))

\* Where copyFile(file, dst) is to write, and the object that is.
Target(file, dst) ==
    IF Len(dst) > 0 /\ dst[Len(dst)] = "/" THEN dst \o BaseName(file) ELSE dst

ObjectAt(p) == <<getType(p), stripType(p)>>

\* The object a write of the trace goes to.
Written(o) == IF o.op = "copy" THEN <<o.driver, o.arg>> ELSE <<o.driver, o.path>>

\* The call had the effects and the outcome of copyFile(file, dst) for some
\* behaviour of the backends.
AsCopyFile(file, dst) ==
    \E g \in BOOLEAN, w \in BOOLEAN :
        LET r == copyFile(file, dst, m_drivers, InitialStore, g, w)
        IN  /\ r.store = store /\ r.trace = trace
            /\ r.out.kind = aout.kind
            /\ aout.kind = "raised" => r.out.value = aout.value

\* C13: copyFile(file, dst) with dst a directory path writes the content of
\* file to dst + basename(file), with any other dst to dst, and writes to no
\* other path; copy(src, dst) with a single-file src behaves as
\* copyFile(src, dst).
C13_WritesToDstOrDstPlusBasename ==
    SingleFileCopy =>
        LET to == ObjectAt(Target(acall.src, acall.dst))
        IN  /\ DOMAIN InitialStore \subseteq DOMAIN store
            /\ \A k \in DOMAIN store :
                   k # to => k \in DOMAIN InitialStore /\ store[k] = InitialStore[k]
            /\ \A i \in 1..Len(trace) :
                   trace[i].op \in {"put", "copy"} => Written(trace[i]) = to
            /\ aout.kind = "returned" =>
                   /\ to \in DOMAIN store
                   /\ ObjectAt(acall.src) \in DOMAIN InitialStore
                   /\ store[to] = InitialStore[ObjectAt(acall.src)]
            /\ acall.name = "copy" => AsCopyFile(acall.src, acall.dst)

\* copy("s3://b/x", "c/") has written the object to c/x of the filesystem.
C13_Witness ==
    /\ SingleFileCopy /\ acall.name = "copy" /\ aout.kind = "returned"
    /\ acall.src = Url(S3Type, <<"b", "/", "x">>)
    /\ acall.dst = <<"c", "/">>
    /\ <<FileType, <<"c", "/", "x">>>> \in DOMAIN store
    /\ store[<<FileType, <<"c", "/", "x">>>>] = <<"3">>

-----------------------------------------------------------------------------
(* Paths without a driver *)

\* The calls with one path, and the try variants among them.
PathCalls ==
    {"get", "getBinary", "put", "getSize", "resolve", "getEndpoint", "isRemote",
     "tryGet", "tryGetBinary", "tryGetSize", "exists"}

TryCalls == {"tryGet", "tryGetBinary", "tryGetSize"}

\* A call starts in this step; the steps of SpecArbiter that start a call of
\* PathCalls, or a copy with a path without driver, also end it.
CallStarts == apc = "idle" /\ apc' # "idle"

\* The call of this step raises the no-driver error, has invoked no driver and
\* leaves the registry as it was.
NoDriverRaised ==
    /\ apc' = "done" /\ aout'.kind = "raised" /\ aout'.value = "noDriver"
    /\ \A i \in 1..Len(trace') : trace'[i].op = "mkdirp"
    /\ m_drivers' = m_drivers

\* A try variant returns an empty result only when there is a driver and the
\* backend reports the object absent, and exists is true iff tryGetSize of the
\* driver returns a value.
TryVariants ==
    /\ (/\ acall'.name \in TryCalls
        /\ aout'.kind = "returned"
        /\ IF acall'.name = "tryGetSize" THEN aout'.sizePointer = Absent
                                         ELSE aout'.pointer = Absent)
           => /\ getType(acall'.src) \in m_drivers
              /\ Len(trace') = 1
              /\ trace'[1].op = acall'.name /\ ~trace'[1].ok
    /\ (acall'.name = "exists" /\ getType(acall'.src) \in m_drivers)
           => /\ aout'.kind = "returned"
              /\ Len(trace') = 1 /\ trace'[1].op = "tryGetSize"
              /\ aout'.bool <=> trace'[1].ok

\* C14, as claimed: for every path whose type has no registered driver, get,
\* getBinary, put, getSize, resolve, copy, getEndpoint, isRemote, tryGet,
\* tryGetBinary, tryGetSize and exists raise the no-driver error without
\* invoking a driver and without changing the registry; a try variant returns
\* an empty result only when there is a driver and the backend reports the
\* object absent, and exists is then true iff tryGetSize returns a value.
C14_NoDriverRaises ==
    [][CallStarts =>
          /\ (acall'.name \in PathCalls /\ getType(acall'.src) \notin m_drivers)
                 => NoDriverRaised
          /\ (/\ acall'.name = "copy"
              /\ \/ getType(acall'.src) \notin m_drivers
                 \/ getType(acall'.dst) \notin m_drivers)
                 => NoDriverRaised
          /\ TryVariants]_vars

\* C14, amended: the same, for copy when neither src nor dst is empty (an
\* empty src or dst is refused first, with its own error).
C14_NoDriverRaisesUnlessEmpty ==
    [][CallStarts =>
          /\ (acall'.name \in PathCalls /\ getType(acall'.src) \notin m_drivers)
                 => NoDriverRaised
          /\ (/\ acall'.name = "copy"
              /\ acall'.src # <<>> /\ acall'.dst # <<>>
              /\ \/ getType(acall'.src) \notin m_drivers
                 \/ getType(acall'.dst) \notin m_drivers)
                 => NoDriverRaised
          /\ TryVariants]_vars

\* tryGetSize("s3://b/x") has raised for want of an S3 driver.
C14_Witness ==
    /\ Raises("noDriver") /\ trace = <<>>
    /\ acall.name = "tryGetSize"
    /\ acall.src = Url(S3Type, <<"b", "/", "x">>)
    /\ S3Type \notin m_drivers

-----------------------------------------------------------------------------
(* Arbiter::copy of a directory or a glob *)

\* copy is in, or has left, its loop over the resolved paths.
MultiFileCopy == apc \in {"copying", "done"} /\ acall.name = "copy" /\ paths # <<>>

ReadsOf(tr) == SelectSeq(tr, LAMBDA o : o.op = "getBinary")

PutsOf(tr) == SelectSeq(tr, LAMBDA o : o.op = "put")

\* The normalized root of the source as the resolved paths start with it: with
\* the type in front for a remote driver.
RootPrefix(src) ==
    (IF isRemote(SourceRoot(src)[1]) THEN SourceRoot(src)[1] \o <<":", "/", "/">>
     ELSE <<>>) \o SourceRoot(src)[2]

\* A resolved path without that prefix, and the object under the destination's
\* root at which it is to be written.
Relative(p, src) == SubSeq(p, Len(RootPrefix(src)) + 1, Len(p))

Destination(p, src, dst) ==
    <<DestinationRoot(dst)[1], DestinationRoot(dst)[2] \o Relative(p, src)>>

\* The error a failed operation of a driver raises.
ErrorOf(o) == IF o.op = "put" THEN "putFailed" ELSE "notFound"

\* C15: in a copy over the resolved paths p1..pn, taken in order, a failed get
\* or put of pi makes copy raise that failure as it is; what was copied for
\* p1..p(i-1) stays at the destination, and no get or put is made for
\* p(i+1)..pn.
C15_FirstFailureAborts ==
    MultiFileCopy =>
        LET reads == ReadsOf(trace)
            puts  == PutsOf(trace)
            last  == trace[Len(trace)]
        IN  /\ \A k \in 1..(Len(trace) - 1) : trace[k].ok
            /\ apc = "copying" => last.ok
            /\ (apc = "done" /\ ~last.ok) =>
                   /\ aout.kind = "raised" /\ aout.value = ErrorOf(last)
                   /\ Len(reads) = it
                   /\ Len(puts) = IF last.op = "put" THEN it ELSE it - 1
                   /\ \A j \in 1..it :
                          <<reads[j].driver, reads[j].path>> = ObjectAt(paths[j])
                   /\ \A j \in 1..Len(puts) :
                          <<puts[j].driver, puts[j].path>>
                              = Destination(paths[j], acall.src, acall.dst)
                   /\ \A j \in 1..(it - 1) :
                          LET to == Destination(paths[j], acall.src, acall.dst)
                          IN  /\ to \in DOMAIN store
                              /\ store[to] = InitialStore[ObjectAt(paths[j])]

\* copy("a/", "c/") over three paths has failed at the second: the first is at
\* the destination and the third was neither read nor written.
C15_Witness ==
    /\ MultiFileCopy /\ apc = "done" /\ aout.kind = "raised"
    /\ acall.src = <<"a", "/">> /\ acall.dst = <<"c", "/">>
    /\ Len(paths) = 3 /\ it = 2
    /\ paths[1] = <<"a", "/", "d", "/", "y">>
    /\ <<FileType, <<"c", "/", "d", "/", "y">>>> \in DOMAIN store
    /\ Len(ReadsOf(trace)) = 2

\* What precedes the last separator of a path.
Parent(p) ==
    LET k == CHOOSE n \in 1..Len(p) :
                 p[n] = "/" /\ \A j \in (n + 1)..Len(p) : p[j] # "/"
    IN  SubSeq(p, 1, k - 1)

\* C19: in a copy of a directory or a glob, for every path p that resolve
\* returned one put is made, in the order of resolve, to the destination's root
\* followed by p without the source's normalized root, with the bytes read from
\* p; distinct paths go to distinct destinations, and for a local destination
\* the parent directory is created before each write.
C19_MirrorsStructure ==
    MultiFileCopy =>
        LET puts == PutsOf(trace)
            To(j) == Destination(paths[j], acall.src, acall.dst)
        IN  /\ \A j \in 1..Len(paths) : StartsWith(paths[j], RootPrefix(acall.src))
            /\ \A i, j \in 1..Len(paths) : i # j => To(i) # To(j)
            /\ Len(puts) <= Len(paths)
            /\ \A j \in 1..Len(puts) :
                   /\ <<puts[j].driver, puts[j].path>> = To(j)
                   /\ puts[j].arg = InitialStore[ObjectAt(paths[j])]
            /\ (apc = "done" /\ aout.kind = "returned") =>
                   /\ Len(puts) = Len(paths)
                   /\ \A j \in 1..Len(paths) :
                          /\ To(j) \in DOMAIN store
                          /\ store[To(j)] = InitialStore[ObjectAt(paths[j])]
            /\ ~isRemote(getType(acall.dst)) =>
                   \A k \in 1..Len(trace) :
                       trace[k].op = "put" =>
                           /\ k > 2
                           /\ trace[k - 2].op = "mkdirp"
                           /\ trace[k - 2].path = Parent(trace[k].path)

\* copy("a/", "c/") has returned: c/ holds x, z and d/y.
C19_Witness ==
    /\ MultiFileCopy /\ apc = "done" /\ aout.kind = "returned"
    /\ acall.src = <<"a", "/">> /\ acall.dst = <<"c", "/">>
    /\ Len(paths) = 3
    /\ <<FileType, <<"c", "/", "d", "/", "y">>>> \in DOMAIN store
    /\ store[<<FileType, <<"c", "/", "d", "/", "y">>>>] = <<"2">>
    /\ <<FileType, <<"c", "/", "x">>>> \in DOMAIN store

-----------------------------------------------------------------------------
(* Arbiter::copyFile: the transfer *)

\* The driver operations of a trace, without the mkdirp calls.
Transfers(tr) == SelectSeq(tr, LAMBDA o : o.op # "mkdirp")

\* C20: copyFile (also when copy calls it) chooses the transfer by the types
\* of file and of dst as given. With the same type it calls that driver's copy
\* once, with the two driver-level paths, and makes no get or put of its own;
\* with different types it makes one get of file and then, with the bytes it
\* got, one put to the destination path (no put follows a get that failed).
C20_TransferByScheme ==
    (/\ SingleFileCopy /\ acall.dst # <<>>
     /\ getType(acall.src) \in m_drivers /\ getType(acall.dst) \in m_drivers) =>
        LET ops == Transfers(trace)
            to  == Target(acall.src, acall.dst)
        IN  IF getType(acall.src) = getType(acall.dst)
            THEN /\ Len(ops) = 1
                 /\ ops[1].op = "copy"
                 /\ ops[1].driver = getType(acall.src)
                 /\ ops[1].path = stripType(acall.src)
                 /\ ops[1].arg = stripType(to)
            ELSE /\ Len(ops) >= 1
                 /\ ops[1].op = "getBinary"
                 /\ <<ops[1].driver, ops[1].path>> = ObjectAt(acall.src)
                 /\ IF ops[1].ok
                    THEN /\ Len(ops) = 2
                         /\ ops[2].op = "put"
                         /\ <<ops[2].driver, ops[2].path>> = ObjectAt(to)
                         /\ ops[2].arg = InitialStore[ObjectAt(acall.src)]
                    ELSE Len(ops) = 1

\* copyFile("a/x", "c/") has called the filesystem driver's copy from a/x to c/x.
C20_Witness ==
    /\ SingleFileCopy /\ acall.name = "copyFile" /\ aout.kind = "returned"
    /\ acall.src = <<"a", "/", "x">> /\ acall.dst = <<"c", "/">>
    /\ Len(Transfers(trace)) = 1
    /\ Transfers(trace)[1].op = "copy"
    /\ Transfers(trace)[1].arg = <<"c", "/", "x">>

-----------------------------------------------------------------------------
(* S3Driver::glob against a bucket server that lists in key order *)

\* glob sends a further request in this step.
FurtherRequest == op = "glob" /\ pc = "execDone" /\ pc' = "exec"

MarkerOf(r) == Param(r.query, "marker")

\* The request sent in this step carries a marker that sorts strictly after the
\* marker of the request before it, if that one carried any.
MarkerAdvances ==
    /\ MarkerOf(reqs'[1]) # NoNode
    /\ MarkerOf(reqs[1]) # NoNode
           => Less(MarkerOf(reqs[1])[1], MarkerOf(reqs'[1])[1])

\* The page the server has for the request sent in this step is not the page
\* glob has just had.
FreshPage == ListBucket(backend, reqs'[1].query) # res.body

GlobRuns == op = "glob" /\ pc \in {"exec", "execDone"}

GlobEnds == pc = "done"

\* A page holds a key that is not under a further "/" after the prefix.
HasQualifyingKey(page) ==
    \E i \in 1..Len(page.entries) : TopLevel(page.entries[i][1], prefix)

\* Every further request advances the marker and asks for a fresh page.
MarkersAdvance == [][FurtherRequest => MarkerAdvances /\ FreshPage]_vars

\* A glob that runs comes to its end, by a return or by an exception.
GlobReturns == GlobRuns ~> GlobEnds

\* C21: against a server that holds finitely many keys and answers each request
\* with a bounded page of the keys under the prefix that sort strictly after the
\* request's marker (IsTruncated "true" iff keys remain), every request of glob
\* after the first carries a marker strictly greater than that of the request
\* before it, no page is fetched twice, and glob ends, also when a truncated
\* page holds no qualifying key.
C21_GlobTerminates == MarkersAdvance /\ GlobReturns

\* The marker advances and the page is fresh after every page that holds a
\* qualifying key.
MarkerAdvancesPastQualifyingKey ==
    [][FurtherRequest /\ HasQualifyingKey(res.body)
           => MarkerAdvances /\ FreshPage]_vars

\* glob ends whenever no key of the server under the prefix lies below a
\* further "/": then every page holds a qualifying key.
OnlyQualifyingKeys ==
    \A k \in backend.keys : StartsWith(k, prefix) => TopLevel(k, prefix)

GlobTerminatesOnQualifyingKeys == (GlobRuns /\ OnlyQualifyingKeys) ~> GlobEnds

-----------------------------------------------------------------------------
(* S3Driver::glob: the decision to fetch another page *)

\* glob has sent a request after its i-th page.
RequestedAfter(i) == Len(reqs) > i

\* glob has taken its i-th page without an exception.
Accepted(i) == ~(i = Len(pages) /\ outcome.kind = "raised")

\* C22: the decision of glob to fetch another page depends only on the page
\* just received: after a page of status 200 it sends a further request if and
\* only if the IsTruncated of that page is "true" in any case of letters; a
\* page with another value or without the element ends the listing, whatever
\* the pages before it said.
C22_FurtherPageIffTruncated ==
    op = "glob" =>
        \A i \in 1..Len(pages) :
            /\ RequestedAfter(i) => SaysTruncated(pages[i])
            /\ (SaysTruncated(pages[i]) /\ Accepted(i)) => RequestedAfter(i)

\* The same holds of the first page, and of every page that has an IsTruncated
\* element.
FurtherPageIffTruncatedWhenStated ==
    op = "glob" =>
        \A i \in 1..Len(pages) :
            (i = 1 \/ pages[i].trunc # NoNode) =>
                /\ RequestedAfter(i) => SaysTruncated(pages[i])
                /\ (SaysTruncated(pages[i]) /\ Accepted(i)) => RequestedAfter(i)

\* A page without the element leaves the decision to the page before it.
StaleDecision ==
    op = "glob" =>
        \A i \in 2..Len(pages) :
            (pages[i].trunc = NoNode /\ Accepted(i)) => RequestedAfter(i)

====
